---------------------------- MODULE Spec2Model ----------------------------
(***************************************************************************)
(* Red-black tree of src/data-structures/red-black-tree/RedBlackTree.ts.   *)
(*                                                                         *)
(* The object graph is a heap: a function from object ids to node records. *)
(* Id 0 is the NIL sentinel object, ids 1..n are the nodes created by      *)
(* insert, in creation order.  The JavaScript value null is Null.  The     *)
(* heap holds the objects reachable from the tree object: clear() drops    *)
(* the root reference, the old nodes become unreachable and are collected, *)
(* so the heap after clear() holds the sentinel alone.                     *)
(***************************************************************************)
EXTENDS Integers, Sequences, FiniteSets, TLC

\* ------------------------------------------------------------- bounds
\* Keys are 1..MaxKey; at most MaxNodes inserts between two clears.
MaxKey == 3
MaxNodes == 8

Keys == 1..MaxKey

\* The deep trees of SpecDeep: keys 1..MaxDeepKey, at most MaxDeep inserts
\* between two clears, enough for the fix-up loop to recolor twice in one
\* insert.
MaxDeepKey == 2
MaxDeep == 10

DeepKeys == 1..MaxDeepKey

\* The small trees of SpecRead, on which the read-only operations are called:
\* keys 1..MaxDeepKey, at most MaxRead inserts between two clears.
MaxRead == 5

\* ---------------------------------------------------------- constants
RED == 0
BLACK == 1
\* The sentinel object's id, and the null reference.
NIL == 0
Null == -1
\* What a query yields when the code throws a TypeError (a property of null read).
TypeError == -2

VARIABLES heap, root, hist, fresh, last, out

vars == <<heap, root, hist, fresh, last, out>>

\* ------------------------------------------------------ object creation
createNilNode ==
    [key |-> Null, color |-> BLACK, left |-> Null, right |-> Null, parent |-> Null]

createNode(key) ==
    [key |-> key, color |-> RED, left |-> NIL, right |-> NIL, parent |-> Null]

\* The tree object after the constructor: the sentinel alone, root = NIL.
\* err: a TypeError was thrown; log: the steps insert took; k: fix-up's cursor.
\* The call's trace: w, the fields written, as <<object, field>> with the
\* tree object's root field as <<Null, "root">>; rots, one record for every
\* rotation; its, one record for every iteration of the fix-up loop.
NewTree ==
    [h |-> (NIL :> createNilNode), root |-> NIL,
     err |-> FALSE, log |-> <<>>, k |-> Null,
     w |-> {}, rots |-> <<>>, its |-> <<>>]

\* ------------------------------------------------------- field writes
SetLeft(m, n, v) == [m EXCEPT !.h[n].left = v, !.w = m.w \cup {<<n, "left">>}]
SetRight(m, n, v) == [m EXCEPT !.h[n].right = v, !.w = m.w \cup {<<n, "right">>}]
SetParent(m, n, v) == [m EXCEPT !.h[n].parent = v, !.w = m.w \cup {<<n, "parent">>}]
SetColor(m, n, c) == [m EXCEPT !.h[n].color = c, !.w = m.w \cup {<<n, "color">>}]
SetRoot(m, n) == [m EXCEPT !.root = n, !.w = m.w \cup {<<Null, "root">>}]
SetK(m, n) == [m EXCEPT !.k = n]
Throw(m) == [m EXCEPT !.err = TRUE]
Log(m, s) == [m EXCEPT !.log = Append(m.log, s)]

\* The trace of one rotation of x with pivot y, from tree m to tree r: the
\* heap and root before and after, and the fields the rotation wrote.
RecordRotation(m, op, x, y, r) ==
    [r EXCEPT !.log = Append(r.log, op),
              !.w = m.w \cup r.w,
              !.rots = Append(r.rots, [op |-> op, x |-> x, y |-> y,
                                       pre |-> [h |-> m.h, root |-> m.root],
                                       post |-> [h |-> r.h, root |-> r.root],
                                       w |-> r.w])]

\* --------------------------------------------------------- rotations
\* Fault variant of LeftRotateTransfer: the transferred child's parent is
\* assigned without the test against the sentinel.
LeftRotateTransferUnguarded(m, x, y) ==
    SetParent(SetRight(m, x, m.h[y].left), m.h[y].left, x)

\* leftRotate, lines 190-194: detach the pivot's left subtree onto x.
LeftRotateTransfer(m, x, y) ==
    LET m1 == SetRight(m, x, m.h[y].left)
    IN  IF m1.h[y].left # NIL THEN SetParent(m1, m1.h[y].left, x) ELSE m1

\* Fault variant of LeftRotateReplace: x's old parent keeps pointing at x.
LeftRotateReplaceNoRelink(m, x, y) ==
    LET m1 == SetParent(m, y, m.h[x].parent)
    IN  IF m1.h[x].parent = Null THEN SetRoot(m1, y) ELSE m1

\* leftRotate, lines 196-204: hang the pivot where x hung.
LeftRotateReplace(m, x, y) ==
    LET m1 == SetParent(m, y, m.h[x].parent)
        p == m1.h[x].parent
    IN  IF p = Null THEN SetRoot(m1, y)
        ELSE IF x = m1.h[p].left THEN SetLeft(m1, p, y)
        ELSE SetRight(m1, p, y)

\* Fault variant of LeftRotateLink: the rotation also paints the pivot BLACK.
LeftRotateLinkRecolors(m, x, y) == SetColor(SetParent(SetLeft(m, y, x), x, y), y, BLACK)

\* leftRotate, lines 206-207: x becomes the pivot's left child.
LeftRotateLink(m, x, y) == SetParent(SetLeft(m, y, x), x, y)

\* Fault variant of LeftRotate: the rotation is left out.
LeftRotateSkipped(m, x) == m

LeftRotate(m, x) ==
    LET y == m.h[x].right
    IN  IF y = Null THEN Throw(m)
        ELSE IF m.h[y].left = Null THEN Throw(SetRight(m, x, Null))
        ELSE RecordRotation(m, "leftRotate", x, y,
                         LeftRotateLink(LeftRotateReplace(
                             LeftRotateTransfer([m EXCEPT !.w = {}], x, y), x, y), x, y))

\* Fault variant of RightRotateTransfer: the pivot's right subtree is dropped
\* instead of handed to x.
RightRotateTransferDrops(m, x, y) == SetLeft(m, x, NIL)

\* rightRotate, lines 216-220.
RightRotateTransfer(m, x, y) ==
    LET m1 == SetLeft(m, x, m.h[y].right)
    IN  IF m1.h[y].right # NIL THEN SetParent(m1, m1.h[y].right, x) ELSE m1

\* Fault variant of RightRotateReplace: the pivot's parent is not assigned.
RightRotateReplaceKeepsParent(m, x, y) ==
    LET p == m.h[x].parent
    IN  IF p = Null THEN SetRoot(m, y)
        ELSE IF x = m.h[p].right THEN SetRight(m, p, y)
        ELSE SetLeft(m, p, y)

\* rightRotate, lines 222-230.
RightRotateReplace(m, x, y) ==
    LET m1 == SetParent(m, y, m.h[x].parent)
        p == m1.h[x].parent
    IN  IF p = Null THEN SetRoot(m1, y)
        ELSE IF x = m1.h[p].right THEN SetRight(m1, p, y)
        ELSE SetLeft(m1, p, y)

\* rightRotate, lines 232-233.
RightRotateLink(m, x, y) == SetParent(SetRight(m, y, x), x, y)

RightRotate(m, x) ==
    LET y == m.h[x].left
    IN  IF y = Null THEN Throw(m)
        ELSE IF m.h[y].right = Null THEN Throw(SetLeft(m, x, Null))
        ELSE RecordRotation(m, "rightRotate", x, y,
                         RightRotateLink(RightRotateReplace(
                             RightRotateTransfer([m EXCEPT !.w = {}], x, y), x, y), x, y))

\* ------------------------------------------------------------- fix-up
\* The loop condition, line 122.
LoopCond(m) ==
    LET p == m.h[m.k].parent
    IN  p # Null /\ m.h[p].color = RED

\* Case 1 with the parent on the right, lines 129-132: u is the uncle.
Case1Right(m, u) ==
    LET p == m.h[m.k].parent
        g == m.h[p].parent
    IN  Log(SetK(SetColor(SetColor(SetColor(m, u, BLACK), p, BLACK), g, RED), g), "case1")

\* Case 2 with the parent on the right, lines 134-138.
Case2Right(m) ==
    LET p == m.h[m.k].parent
    IN  IF m.k = m.h[p].left THEN RightRotate(Log(SetK(m, p), "case2"), p) ELSE m

\* Fault variant of Case3Right: the grandparent is rotated without being
\* painted RED.
Case3RightKeepsGrandparent(m) ==
    LET p == m.h[m.k].parent
    IN  IF m.err \/ p = Null THEN m
        ELSE LET m1 == Log(SetColor(m, p, BLACK), "case3")
                 g == m1.h[p].parent
             IN  IF g # Null THEN LeftRotate(m1, g) ELSE m1

\* Fault variant of Case3Right: the grandparent is rotated to the right, as
\* in the mirrored branch.
Case3RightRotatesRight(m) ==
    LET p == m.h[m.k].parent
    IN  IF m.err \/ p = Null THEN m
        ELSE LET m1 == Log(SetColor(m, p, BLACK), "case3")
                 g == m1.h[p].parent
             IN  IF g # Null THEN RightRotate(SetColor(m1, g, RED), g) ELSE m1

\* Case 3 with the parent on the right, lines 140-146.
Case3Right(m) ==
    LET p == m.h[m.k].parent
    IN  IF m.err \/ p = Null THEN m
        ELSE LET m1 == Log(SetColor(m, p, BLACK), "case3")
                 g == m1.h[p].parent
             IN  IF g # Null THEN LeftRotate(SetColor(m1, g, RED), g) ELSE m1

\* The branch of lines 123-147: the parent is the grandparent's right child.
FixRight(m) ==
    LET p == m.h[m.k].parent
        g == m.h[p].parent
        u == m.h[g].left
    IN  IF u # Null /\ m.h[u].color = RED THEN Case1Right(m, u)
        ELSE Case3Right(Case2Right(m))

\* Fault variant of Case1Left: the cursor is not moved up to the grandparent.
Case1LeftKeepsCursor(m, u) ==
    LET p == m.h[m.k].parent
        g == m.h[p].parent
    IN  Log(SetColor(SetColor(SetColor(m, u, BLACK), p, BLACK), g, RED), "case1")

\* Case 1 with the parent on the left, lines 154-157.
Case1Left(m, u) ==
    LET p == m.h[m.k].parent
        g == m.h[p].parent
    IN  Log(SetK(SetColor(SetColor(SetColor(m, u, BLACK), p, BLACK), g, RED), g), "case1")

\* Case 2 with the parent on the left, lines 159-163.
Case2Left(m) ==
    LET p == m.h[m.k].parent
    IN  IF m.k = m.h[p].right THEN LeftRotate(Log(SetK(m, p), "case2"), p) ELSE m

\* Fault variant of Case3Left: the parent is not painted BLACK before the
\* grandparent is rotated.
Case3LeftKeepsParent(m) ==
    LET p == m.h[m.k].parent
    IN  IF m.err \/ p = Null THEN m
        ELSE LET m1 == Log(m, "case3")
                 g == m1.h[p].parent
             IN  IF g # Null THEN RightRotate(SetColor(m1, g, RED), g) ELSE m1

\* Case 3 with the parent on the left, lines 165-171.
Case3Left(m) ==
    LET p == m.h[m.k].parent
    IN  IF m.err \/ p = Null THEN m
        ELSE LET m1 == Log(SetColor(m, p, BLACK), "case3")
                 g == m1.h[p].parent
             IN  IF g # Null THEN RightRotate(SetColor(m1, g, RED), g) ELSE m1

\* The branch of lines 148-173: the parent is the grandparent's left child.
FixLeft(m) ==
    LET p == m.h[m.k].parent
        g == m.h[p].parent
        u == m.h[g].right
    IN  IF u # Null /\ m.h[u].color = RED THEN Case1Left(m, u)
        ELSE Case3Left(Case2Left(m))

\* One iteration of the loop body, lines 123-173.  k.parent.parent! is read
\* without a check: a null grandparent throws.
FixBody(m) ==
    LET p == m.h[m.k].parent
        g == m.h[p].parent
    IN  IF g = Null THEN Throw(m)
        ELSE IF p = m.h[g].right THEN FixRight(m)
        ELSE FixLeft(m)

\* The trace of one loop iteration, from tree m to tree r: the cursor, heap
\* and root before and after, and the steps the iteration logged.
RecordIteration(m, r) ==
    [r EXCEPT !.its = Append(r.its, [k0 |-> m.k, k1 |-> r.k,
                                     steps |-> SubSeq(r.log, Len(m.log) + 1, Len(r.log)),
                                     pre |-> [h |-> m.h, root |-> m.root],
                                     post |-> [h |-> r.h, root |-> r.root]])]

\* The while loop of lines 122-178, with its break at line 175.
RECURSIVE FixLoop(_)
FixLoop(m) ==
    IF m.err \/ ~LoopCond(m) THEN m
    ELSE LET m1 == RecordIteration(m, FixBody(m))
         IN  IF m1.err \/ m1.k = m1.root THEN m1 ELSE FixLoop(m1)

\* Fault variant of BlackenRoot: the root keeps the color the loop left.
BlackenRootSkipped(m) == m

\* Line 181: the root is painted BLACK after the loop.
BlackenRoot(m) ==
    IF m.err THEN m
    ELSE Log(SetColor(m, m.root, BLACK),
             IF m.h[m.root].color = RED THEN "rootRedToBlack" ELSE "rootBlack")

FixInsert(m, k) == BlackenRoot(FixLoop(Log(SetK(m, k), "fixInsert")))

\* ------------------------------------------------------------- insert
\* Fault variants of the comparisons: ties descend left; the link compares
\* the wrong way round.
DescendLeftOrEqual(newKey, xKey) == newKey <= xKey
LinkLeftReversed(newKey, yKey) == yKey < newKey

\* The comparison of the descent, line 81, and of the link, line 93.
DescendLeft(newKey, xKey) == newKey < xKey
LinkLeft(newKey, yKey) == newKey < yKey

\* The descent of lines 75-86: the last node visited before the sentinel.
RECURSIVE Descend(_, _, _, _)
Descend(h, x, y, key) ==
    IF x = NIL THEN y
    ELSE IF DescendLeft(key, h[x].key) THEN Descend(h, h[x].left, x, key)
    ELSE Descend(h, h[x].right, x, key)

\* Lines 73 and 88-97: the new node is created and linked under y.
Attach(m, n, y, key) ==
    LET m0 == [m EXCEPT !.h = m.h @@ (n :> createNode(key))]
        m1 == SetParent(m0, n, y)
    IN  IF y = Null THEN SetRoot(m1, n)
        ELSE IF LinkLeft(key, m1.h[y].key) THEN SetLeft(m1, y, n)
        ELSE SetRight(m1, y, n)

\* Fault variant of InsertOp: a new root keeps the RED of createNode.
InsertOpRootStaysRed(t, key) ==
    LET m == [t EXCEPT !.err = FALSE, !.log = <<>>, !.k = Null,
                       !.w = {}, !.rots = <<>>, !.its = <<>>]
        n == Cardinality(DOMAIN m.h)
        y == Descend(m.h, m.root, Null, key)
        m1 == Attach(m, n, y, key)
    IN  IF m1.h[n].parent = Null THEN Log(m1, "newRoot")
        ELSE IF m1.h[m1.h[n].parent].parent = Null THEN Log(m1, "rootChild")
        ELSE FixInsert(m1, n)

\* insert(key), lines 72-112.  The new node's id is the next free one.
InsertOp(t, key) ==
    LET m == [t EXCEPT !.err = FALSE, !.log = <<>>, !.k = Null,
                       !.w = {}, !.rots = <<>>, !.its = <<>>]
        n == Cardinality(DOMAIN m.h)
        y == Descend(m.h, m.root, Null, key)
        m1 == Attach(m, n, y, key)
    IN  IF m1.h[n].parent = Null THEN Log(SetColor(m1, n, BLACK), "newRoot")
        ELSE IF m1.h[m1.h[n].parent].parent = Null THEN Log(m1, "rootChild")
        ELSE FixInsert(m1, n)

\* Fault variant of ClearOp: the root reference is not reset.
ClearOpKeepsRoot(t) ==
    [t EXCEPT !.err = FALSE, !.log = <<>>, !.k = Null,
              !.w = {}, !.rots = <<>>, !.its = <<>>]

\* clear(), lines 439-441: the root reference is reset to the sentinel; the
\* nodes, no longer reachable, leave the heap.
ClearOp(t) ==
    [t EXCEPT !.root = NIL, !.h = (NIL :> t.h[NIL]),
              !.err = FALSE, !.log = <<>>, !.k = Null,
              !.w = {<<Null, "root">>}, !.rots = <<>>, !.its = <<>>]

\* ---------------------------------------------------------- the machine
\* The tree object of the current state.
Tree ==
    [h |-> heap, root |-> root, err |-> last.err, log |-> last.log, k |-> Null,
     w |-> last.w, rots |-> last.rots, its |-> last.its]

\* A tree object with the trace of its last call dropped.
Quiet(t) == [t EXCEPT !.log = <<>>, !.w = {}, !.rots = <<>>, !.its = <<>>]

\* out: the last read-only call since the last insert or clear, its argument
\* and what it returned (a scalar as a sequence of one), or NoCall.
NoCall == [op |-> "none", key |-> Null, result |-> <<>>]

Init ==
    /\ out = NoCall
    /\ heap = NewTree.h
    /\ root = NewTree.root
    /\ hist = <<>>
    /\ fresh = NewTree
    /\ last = [op |-> "new", key |-> Null, node |-> Null, dropped |-> 0,
               err |-> FALSE, log |-> <<>>, w |-> {}, rots |-> <<>>, its |-> <<>>]

\* last: the last call, its trace, and for clear() the number of nodes it
\* made unreachable.
\* insert(k).  hist: the keys inserted since construction or the last clear;
\* fresh: a tree constructed at the last clear, given the same inserts.
InsertBounded(k, n) ==
    /\ Len(hist) < n
    /\ ~last.err
    /\ LET r == InsertOp(Tree, k)
       IN  /\ heap' = r.h
           /\ root' = r.root
           /\ last' = [op |-> "insert", key |-> k, node |-> Cardinality(DOMAIN heap),
                       dropped |-> 0, err |-> r.err, log |-> r.log,
                       w |-> r.w, rots |-> r.rots, its |-> r.its]
    /\ hist' = Append(hist, k)
    /\ fresh' = Quiet(InsertOp(fresh, k))
    /\ out' = NoCall

Insert(k) == InsertBounded(k, MaxNodes)

InsertDeep(k) == InsertBounded(k, MaxDeep)

Clear ==
    /\ LET r == ClearOp(Tree)
       IN  /\ heap' = r.h
           /\ root' = r.root
           /\ last' = [op |-> "clear", key |-> Null, node |-> Null,
                       dropped |-> Cardinality(DOMAIN heap \ DOMAIN r.h),
                       err |-> r.err, log |-> r.log,
                       w |-> r.w, rots |-> r.rots, its |-> r.its]
    /\ hist' = <<>>
    /\ fresh' = NewTree
    /\ out' = NoCall

Next == (\E k \in Keys : Insert(k)) \/ Clear

Spec == Init /\ [][Next]_vars

\* The same machine over fewer keys and deeper trees.
DeepNext == (\E k \in DeepKeys : InsertDeep(k)) \/ Clear

SpecDeep == Init /\ [][DeepNext]_vars

\* ------------------------------------------------------------- queries
\* The queries read the tree object t and write nothing.
RECURSIVE preorderTraversalHelper(_, _)
preorderTraversalHelper(h, node) ==
    IF node = NIL THEN <<>>
    ELSE <<h[node].key>> \o preorderTraversalHelper(h, h[node].left)
                         \o preorderTraversalHelper(h, h[node].right)

preorderTraversal(t) == preorderTraversalHelper(t.h, t.root)

RECURSIVE inorderTraversalHelper(_, _)
inorderTraversalHelper(h, node) ==
    IF node = NIL THEN <<>>
    ELSE inorderTraversalHelper(h, h[node].left) \o <<h[node].key>>
                         \o inorderTraversalHelper(h, h[node].right)

inorderTraversal(t) == inorderTraversalHelper(t.h, t.root)

RECURSIVE postorderTraversalHelper(_, _)
postorderTraversalHelper(h, node) ==
    IF node = NIL THEN <<>>
    ELSE postorderTraversalHelper(h, h[node].left)
         \o postorderTraversalHelper(h, h[node].right) \o <<h[node].key>>

postorderTraversal(t) == postorderTraversalHelper(t.h, t.root)

\* The queue loop of lines 317-328.
RECURSIVE levelOrderLoop(_, _, _)
levelOrderLoop(h, queue, result) ==
    IF Len(queue) = 0 THEN result
    ELSE LET node == Head(queue)
             q1 == IF h[node].left # NIL THEN Append(Tail(queue), h[node].left)
                   ELSE Tail(queue)
             q2 == IF h[node].right # NIL THEN Append(q1, h[node].right) ELSE q1
         IN  levelOrderLoop(h, q2, Append(result, h[node].key))

levelOrderTraversal(t) ==
    IF t.root = NIL THEN <<>> ELSE levelOrderLoop(t.h, <<t.root>>, <<>>)

Max2(a, b) == IF a >= b THEN a ELSE b

RECURSIVE getDepthHelper(_, _)
getDepthHelper(h, node) ==
    IF node = NIL THEN 0
    ELSE Max2(getDepthHelper(h, h[node].left), getDepthHelper(h, h[node].right)) + 1

getDepth(t) == getDepthHelper(t.h, t.root)

\* Fault variant of searchHelper: the descent goes to the wrong side.
RECURSIVE searchHelperReversed(_, _, _)
searchHelperReversed(h, node, key) ==
    IF node = NIL \/ key = h[node].key THEN node
    ELSE IF key < h[node].key THEN searchHelperReversed(h, h[node].right, key)
    ELSE searchHelperReversed(h, h[node].left, key)

RECURSIVE searchHelper(_, _, _)
searchHelper(h, node, key) ==
    IF node = NIL \/ key = h[node].key THEN node
    ELSE IF key < h[node].key THEN searchHelper(h, h[node].left, key)
    ELSE searchHelper(h, h[node].right, key)

search(t, key) == searchHelper(t.h, t.root, key)

\* Fault variant of getMinimumNode: one step to the left instead of a loop.
getMinimumNodeOneStep(h, current) ==
    IF current = Null THEN TypeError
    ELSE IF h[current].left # NIL THEN h[current].left
    ELSE current

\* The loop of lines 399-403.  Its test reads current.left: with current
\* null the read throws.
RECURSIVE getMinimumNode(_, _)
getMinimumNode(h, current) ==
    IF current = Null THEN TypeError
    ELSE IF h[current].left # NIL THEN getMinimumNode(h, h[current].left)
    ELSE current

getMinimum(t) ==
    LET node == getMinimumNode(t.h, t.root)
    IN  IF node = TypeError THEN TypeError
        ELSE IF node = NIL THEN Null ELSE t.h[node].key

\* The loop of lines 421-425.
RECURSIVE getMaximumNode(_, _)
getMaximumNode(h, current) ==
    IF current = Null THEN TypeError
    ELSE IF h[current].right # NIL THEN getMaximumNode(h, h[current].right)
    ELSE current

getMaximum(t) ==
    LET node == getMaximumNode(t.h, t.root)
    IN  IF node = TypeError THEN TypeError
        ELSE IF node = NIL THEN Null ELSE t.h[node].key

isEmpty(t) == t.root = NIL

\* ------------------------------------------------- read-only operations
\* A call of a read-only operation: lines 240-434 assign to no field of the
\* tree, of a node or of the sentinel, only to locals and the result array.
Returned(op, key, result) ==
    /\ out' = [op |-> op, key |-> key, result |-> result]
    /\ UNCHANGED <<heap, root, hist, fresh, last>>

CallPreorder == Returned("preorderTraversal", Null, preorderTraversal(Tree))

CallInorder == Returned("inorderTraversal", Null, inorderTraversal(Tree))

CallPostorder == Returned("postorderTraversal", Null, postorderTraversal(Tree))

\* Fault variant of CallLevelOrder: the traversal consumes the tree, leaving
\* the root reference at the sentinel.
CallLevelOrderConsumes ==
    /\ out' = [op |-> "levelOrderTraversal", key |-> Null,
               result |-> levelOrderTraversal(Tree)]
    /\ root' = NIL
    /\ UNCHANGED <<heap, hist, fresh, last>>

CallLevelOrder == Returned("levelOrderTraversal", Null, levelOrderTraversal(Tree))

CallGetDepth == Returned("getDepth", Null, <<getDepth(Tree)>>)

CallSearch(key) == Returned("search", key, <<search(Tree, key)>>)

CallGetMinimum == Returned("getMinimum", Null, <<getMinimum(Tree)>>)

CallGetMaximum == Returned("getMaximum", Null, <<getMaximum(Tree)>>)

CallIsEmpty == Returned("isEmpty", Null, <<isEmpty(Tree)>>)

InsertRead(k) == InsertBounded(k, MaxRead)

\* The machine with the read-only operations called between the mutators.
ReadNext ==
    \/ \E k \in DeepKeys : InsertRead(k)
    \/ Clear
    \/ CallPreorder \/ CallInorder \/ CallPostorder \/ CallLevelOrder
    \/ CallGetDepth \/ CallGetMinimum \/ CallGetMaximum \/ CallIsEmpty
    \/ \E k \in DeepKeys : CallSearch(k)

SpecRead == Init /\ [][ReadNext]_vars

\* ---------------------------------------------------------- properties
\* The nodes below (and including) node n, following child links.
RECURSIVE Subtree(_, _)
Subtree(h, n) ==
    IF n = NIL THEN {} ELSE {n} \cup Subtree(h, h[n].left) \cup Subtree(h, h[n].right)

Nodes == Subtree(heap, root)

\* The numbers of BLACK nodes met on the paths from n down to a sentinel link.
RECURSIVE PathBlacks(_, _)
PathBlacks(h, n) ==
    IF n = NIL THEN {0}
    ELSE LET c == IF h[n].color = BLACK THEN 1 ELSE 0
         IN  {b + c : b \in PathBlacks(h, h[n].left) \cup PathBlacks(h, h[n].right)}

\* The node ids in inorder.
RECURSIVE InorderNodes(_, _)
InorderNodes(h, n) ==
    IF n = NIL THEN <<>>
    ELSE InorderNodes(h, h[n].left) \o <<n>> \o InorderNodes(h, h[n].right)

\* The shape below n: keys and colors in place, object ids left out.
RECURSIVE Shape(_, _)
Shape(h, n) ==
    IF n = NIL THEN <<>>
    ELSE <<h[n].key, h[n].color, Shape(h, h[n].left), Shape(h, h[n].right)>>

Range(s) == {s[i] : i \in DOMAIN s}
Count(s, x) == Cardinality({i \in DOMAIN s : s[i] = x})
NonDecreasing(s) == \A i \in 1..(Len(s) - 1) : s[i] <= s[i + 1]
Logged(s) == \E i \in DOMAIN last.log : last.log[i] = s
Rotated == Logged("leftRotate") \/ Logged("rightRotate")

\* -------------------------------------------------------------- claims
\* C1: after any sequence of inserts, below the root and below every node of
\* the tree all paths down to a sentinel link pass through the same number of
\* BLACK nodes.
C1_EqualBlackHeight ==
    \A n \in Nodes \cup {root} : Cardinality(PathBlacks(heap, n)) = 1

\* C1's case: eight inserts with duplicates, the last one recolored (Case 1)
\* and then rotated (Case 3) higher up; every path holds two BLACK nodes.
C1_Witness ==
    /\ Len(hist) = 8 /\ Cardinality(Range(hist)) < 8
    /\ Logged("case1") /\ Logged("case3") /\ Rotated
    /\ PathBlacks(heap, root) = {2}

\* C2: after any sequence of inserts, every RED node has two BLACK children,
\* the sentinel counted as BLACK.
C2_NoRedRed ==
    \A n \in Nodes :
        heap[n].color = RED =>
            heap[heap[n].left].color = BLACK /\ heap[heap[n].right].color = BLACK

\* C2's case: fix-up ran Case 2 and Case 3, and the tree holds a RED node
\* with two BLACK children that are nodes.
C2_Witness ==
    /\ last.op = "insert" /\ Logged("case2") /\ Logged("case3")
    /\ \E n \in Nodes :
          /\ heap[n].color = RED
          /\ heap[n].left # NIL /\ heap[n].right # NIL
          /\ heap[heap[n].left].color = BLACK /\ heap[heap[n].right].color = BLACK

\* C3: after every completed insert and after clear the root is BLACK: the
\* tree is empty and root is the sentinel, or root is a BLACK node.
C3_RootBlack ==
    /\ \/ root = NIL /\ hist = <<>>
       \/ root \in 1..Len(hist) /\ heap[root].color = BLACK
    /\ last.op = "clear" => root = NIL

\* C3's case: Case 1 reached the root and painted it RED, and line 181
\* painted it BLACK again.
C3_Witness ==
    /\ last.op = "insert" /\ Logged("rootRedToBlack")
    /\ heap[root].color = BLACK /\ root # NIL

\* C4: inorderTraversal() is non-decreasing; with distinct keys it is the
\* inserted keys in ascending order.
C4_InorderSorted ==
    LET io == inorderTraversal(Tree)
    IN  /\ NonDecreasing(io)
        /\ Cardinality(Range(hist)) = Len(hist) =>
              /\ Len(io) = Len(hist)
              /\ Range(io) = Range(hist)
              /\ \A i \in 1..(Len(io) - 1) : io[i] < io[i + 1]

\* C4's case: three distinct keys inserted in descending order come out
\* ascending.
C4_Witness ==
    /\ hist = <<3, 2, 1>>
    /\ inorderTraversal(Tree) = <<1, 2, 3>>

\* C5: inorderTraversal() has one key per insert since construction or the
\* last clear, it is the multiset of the inserted keys, and the node created
\* by the i-th insert still holds the i-th key.
C5_InorderIsInserted ==
    LET io == inorderTraversal(Tree)
    IN  /\ Len(io) = Len(hist)
        /\ \A k \in Keys : Count(io, k) = Count(hist, k)
        /\ \A i \in 1..Len(hist) : heap[i].key = hist[i]
        /\ Nodes = 1..Len(hist)

\* C5's case: eight inserts, duplicates among them, the last one rotating.
C5_Witness ==
    /\ Len(hist) = 8 /\ Rotated
    /\ \E k \in Keys : Count(hist, k) >= 3
    /\ Len(inorderTraversal(Tree)) = 8

\* C6: search(key) returns a node of the tree holding key for every key
\* inserted since construction or the last clear, and the sentinel for every
\* other key.
C6_SearchCorrect ==
    \A key \in 0..(MaxKey + 1) :
        LET found == search(Tree, key)
        IN  IF key \in Range(hist)
            THEN found \in Nodes /\ heap[found].key = key
            ELSE found = NIL

\* C6's case: eight inserts with duplicates; key 1 is found below the root,
\* key 2 was never inserted and search returns the sentinel.
C6_Witness ==
    /\ Len(hist) = 8 /\ Range(hist) = {1, 3}
    /\ search(Tree, 1) \in Nodes \ {root}
    /\ search(Tree, 2) = NIL

\* C7: on an empty tree getMinimum() and getMaximum() return null without
\* raising an error, getDepth() is 0 and isEmpty() is true.
C7_EmptyQueries ==
    isEmpty(Tree) =>
        /\ getMinimum(Tree) = Null
        /\ getMaximum(Tree) = Null
        /\ getDepth(Tree) = 0

\* C8: after any sequence of inserts 2^getDepth() <= (n+1)^2 for the n nodes
\* of the tree; seven inserts give a depth below 7.
C8_DepthBound ==
    LET d == getDepth(Tree)
        n == Len(hist)
    IN  /\ n = Cardinality(Nodes)
        /\ 2^d <= (n + 1) * (n + 1)
        /\ n = 7 => d < 7

\* C8's case: seven keys inserted in ascending order (ties descend right
\* like larger keys); the depth is 4.
C8_Witness ==
    /\ hist = <<1, 1, 2, 2, 3, 3, 3>>
    /\ getDepth(Tree) = 4

\* C9: after clear() the tree answers as a newly constructed one: it is
\* empty, its depth is 0, the four traversals are empty, search returns the
\* sentinel; and the inserts that follow give the shape, colors and query
\* results the same inserts give on a new tree.
C9_ClearIsNew ==
    /\ last.op = "clear" =>
          /\ isEmpty(Tree) /\ getDepth(Tree) = 0
          /\ preorderTraversal(Tree) = <<>> /\ inorderTraversal(Tree) = <<>>
          /\ postorderTraversal(Tree) = <<>> /\ levelOrderTraversal(Tree) = <<>>
          /\ \A key \in 0..(MaxKey + 1) : search(Tree, key) = NIL
    /\ Shape(heap, root) = Shape(fresh.h, fresh.root)
    /\ heap[NIL] = fresh.h[NIL]
    /\ isEmpty(Tree) = isEmpty(fresh) /\ getDepth(Tree) = getDepth(fresh)
    /\ preorderTraversal(Tree) = preorderTraversal(fresh)
    /\ inorderTraversal(Tree) = inorderTraversal(fresh)
    /\ postorderTraversal(Tree) = postorderTraversal(fresh)
    /\ levelOrderTraversal(Tree) = levelOrderTraversal(fresh)
    /\ \A key \in 0..(MaxKey + 1) :
          Shape(heap, search(Tree, key)) = Shape(fresh.h, search(fresh, key))

\* C9's case: clear() has just dropped a tree of eight nodes.
C9_Witness ==
    /\ last.op = "clear" /\ last.dropped = 8
    /\ isEmpty(Tree) /\ levelOrderTraversal(Tree) = <<>>

\* The ancestors of node n, following parent links.
RECURSIVE Ancestors(_, _)
Ancestors(h, n) ==
    IF h[n].parent = Null THEN {} ELSE {h[n].parent} \cup Ancestors(h, h[n].parent)

\* C10 as stated: every later node of a key lies in the right subtree of the
\* first-inserted node of that key.
C10_RightOfFirst ==
    \A i \in Nodes : \A j \in Nodes :
        (i < j /\ heap[i].key = heap[j].key
         /\ \A e \in Nodes : heap[e].key = heap[i].key => i <= e)
            => j \in Subtree(heap, heap[i].right)

\* C10 amended: insert links the new node into the right subtree of every
\* node of an equal key on its descent, so that it follows every node of that
\* key in inorder; after any sequence of inserts the nodes of one key stand in
\* inorder in the order of their insertion.
C10_DuplicatesInInsertOrder ==
    /\ LET io == InorderNodes(heap, root)
       IN  \A a \in DOMAIN io : \A b \in DOMAIN io :
              (a < b /\ heap[io[a]].key = heap[io[b]].key) => io[a] < io[b]
    /\ \A key \in Keys :
          LET n == Cardinality(DOMAIN heap)
              m == Attach(Tree, n, Descend(heap, root, Null, key), key)
              io == InorderNodes(m.h, m.root)
              pn == CHOOSE b \in DOMAIN io : io[b] = n
          IN  /\ \A e \in Ancestors(m.h, n) :
                    m.h[e].key = key => n \in Subtree(m.h, m.h[e].right)
              /\ \A a \in DOMAIN io : m.h[io[a]].key = key => a <= pn

\* C10's case: three nodes of key 1 and a rotation; the first-inserted node
\* has become the left child of a later one.
C10_Witness ==
    /\ hist = <<1, 1, 1>>
    /\ heap[2].left = 1 /\ root = 2
    /\ InorderNodes(heap, root) = <<1, 2, 3>>

\* The real nodes of heap h: every object but the sentinel.
RealNodes(h) == DOMAIN h \ {NIL}

\* C11: every insert runs to completion without a null dereference: in every
\* iteration of the fix-up loop k.parent.parent is a real node, and every
\* rotation fix-up issues has a real node as its pivot.
C11_InsertCompletes ==
    /\ ~last.err
    /\ last.op = "insert" =>
          last.log[Len(last.log)] \in {"newRoot", "rootChild", "rootBlack", "rootRedToBlack"}
    /\ \A i \in DOMAIN last.its :
          LET it == last.its[i]
              p == it.pre.h[it.k0].parent
          IN  /\ p \in RealNodes(it.pre.h)
              /\ it.pre.h[p].parent \in RealNodes(it.pre.h)
    /\ \A i \in DOMAIN last.rots :
          LET r == last.rots[i]
          IN  /\ r.x \in RealNodes(r.pre.h) /\ r.y \in RealNodes(r.pre.h)
              /\ r.y = IF r.op = "leftRotate" THEN r.pre.h[r.x].right
                       ELSE r.pre.h[r.x].left

\* C11's case: an insert whose fix-up ran two iterations and both rotations.
C11_Witness ==
    /\ last.op = "insert" /\ ~last.err
    /\ Len(last.its) = 2 /\ Len(last.rots) = 2
    /\ last.log[Len(last.log)] = "rootBlack"

\* C12: on a non-empty tree getMinimum() is the smallest and getMaximum() the
\* largest key inserted since construction or the last clear: the first and
\* the last element of inorderTraversal().
C12_MinMax ==
    ~isEmpty(Tree) =>
        LET io == inorderTraversal(Tree)
        IN  /\ getMinimum(Tree) = io[1]
            /\ getMaximum(Tree) = io[Len(io)]
            /\ getMinimum(Tree) \in Range(hist) /\ getMaximum(Tree) \in Range(hist)
            /\ \A i \in DOMAIN hist :
                  getMinimum(Tree) <= hist[i] /\ hist[i] <= getMaximum(Tree)

\* C12's case: eight nodes, the extremes inserted last and two or more steps
\* below the root.
C12_Witness ==
    /\ Len(hist) = 8 /\ hist[7] = 3 /\ hist[8] = 1 /\ heap[root].key = 2
    /\ getMinimum(Tree) = 1 /\ getMaximum(Tree) = 3
    /\ heap[root].left # 8 /\ heap[root].right # 7
    /\ Count(hist, 1) = 1 /\ Count(hist, 3) = 1

\* C13: a leftRotate(x) with x.right a real node, and a rightRotate(x) with
\* x.left a real node, leave the inorder key sequence of the whole tree as it
\* was, and so does a rotation followed by the inverse rotation around the
\* node that took x's place.  Checked for the rotations fix-up made and for a
\* rotation around every node of the tree.
C13_RotationKeepsInorder ==
    /\ \A i \in DOMAIN last.rots :
          LET r == last.rots[i]
          IN  inorderTraversalHelper(r.pre.h, r.pre.root)
                 = inorderTraversalHelper(r.post.h, r.post.root)
    /\ LET t == Quiet(Tree)
           io == inorderTraversal(t)
       IN  \A x \in RealNodes(heap) :
              /\ heap[x].right # NIL =>
                    LET a == LeftRotate(t, x)
                        b == RightRotate(a, heap[x].right)
                    IN  inorderTraversal(a) = io /\ inorderTraversal(b) = io
              /\ heap[x].left # NIL =>
                    LET a == RightRotate(t, x)
                        b == LeftRotate(a, heap[x].left)
                    IN  inorderTraversal(a) = io /\ inorderTraversal(b) = io

\* C13's case: fix-up rotated right and then left, the left rotation handing
\* a subtree that is not empty from the pivot to x; the tree holds
\* duplicates of two keys.
C13_Witness ==
    /\ Len(last.rots) = 2 /\ Range(hist) = {1, 2}
    /\ last.rots[1].op = "rightRotate" /\ last.rots[2].op = "leftRotate"
    /\ last.rots[2].pre.h[last.rots[2].y].left # NIL
    /\ inorderTraversalHelper(last.rots[2].post.h, last.rots[2].post.root)
          = inorderTraversalHelper(last.rots[1].pre.h, last.rots[1].pre.root)

\* The fields a rotation around r.x with pivot r.y may write: the link of x
\* to the pivot's side and x's parent, the pivot's link to the other side and
\* its parent, the parent of the transferred child when that is a real node,
\* and the link of x's old parent that held x, or the root reference.
RotationMayWrite(r) ==
    LET left == r.op = "leftRotate"
        t == IF left THEN r.pre.h[r.y].left ELSE r.pre.h[r.y].right
        p == r.pre.h[r.x].parent
    IN  {<<r.x, IF left THEN "right" ELSE "left">>, <<r.x, "parent">>,
         <<r.y, IF left THEN "left" ELSE "right">>, <<r.y, "parent">>}
        \cup (IF t # NIL THEN {<<t, "parent">>} ELSE {})
        \cup (IF p = Null THEN {<<Null, "root">>}
              ELSE IF r.pre.h[p].left = r.x THEN {<<p, "left">>}
              ELSE {<<p, "right">>})

\* The fields whose value differs before and after the rotation r.
RotationChanged(r) ==
    {nf \in (DOMAIN r.pre.h) \X {"key", "color", "left", "right", "parent"} :
        r.pre.h[nf[1]][nf[2]] # r.post.h[nf[1]][nf[2]]}
    \cup (IF r.pre.root # r.post.root THEN {<<Null, "root">>} ELSE {})

\* C14: a rotation creates no node, changes no key and no color, and writes
\* only links of x, of the pivot, the transferred child's parent and the link
\* of x's old parent (or the root reference).
C14_RotationFrame ==
    \A i \in DOMAIN last.rots :
        LET r == last.rots[i]
        IN  /\ DOMAIN r.post.h = DOMAIN r.pre.h
            /\ \A n \in DOMAIN r.pre.h :
                  /\ r.post.h[n].key = r.pre.h[n].key
                  /\ r.post.h[n].color = r.pre.h[n].color
            /\ r.w \subseteq RotationMayWrite(r)
            /\ RotationChanged(r) \subseteq r.w

\* C14's case: one insert rotated below the root and then at the root, each
\* time with a real subtree transferred, so each rotation wrote six fields.
C14_Witness ==
    /\ Len(last.rots) = 2
    /\ last.rots[1].pre.h[last.rots[1].x].parent # Null
    /\ Cardinality(last.rots[1].w) = 6 /\ <<Null, "root">> \notin last.rots[1].w
    /\ last.rots[2].pre.h[last.rots[2].x].parent = Null
    /\ <<Null, "root">> \in last.rots[2].w
    /\ Cardinality(RotationChanged(last.rots[2])) = 6

\* The number of links from node n up to the root of heap h.
Level(h, n) == Cardinality(Ancestors(h, n))

\* The iteration it took the uncle-BLACK branch (Case 2 and Case 3).
UncleBlack(it) == \E j \in DOMAIN it.steps : it.steps[j] = "case3"

\* C15: the fix-up loop of every insert ends, each iteration bringing the
\* current node nearer to the root.  An iteration that takes the uncle-BLACK
\* branch is the last one and leaves the current node with a BLACK parent;
\* every earlier iteration is the uncle-RED recoloring alone, which moves the
\* current node to its grandparent, two levels up.  An insert makes at most
\* two rotations.
C15_FixupTerminates ==
    /\ last.op = "insert" /\ Logged("fixInsert") =>
          last.log[Len(last.log)] \in {"rootBlack", "rootRedToBlack"}
    /\ Len(last.rots) <= 2
    /\ \A i \in DOMAIN last.its :
          LET it == last.its[i]
          IN  /\ Level(it.post.h, it.k1) < Level(it.pre.h, it.k0)
              /\ UncleBlack(it) =>
                    /\ i = Len(last.its)
                    /\ it.post.h[it.k1].parent # Null
                    /\ it.post.h[it.post.h[it.k1].parent].color = BLACK
                    /\ it.steps \in {<<"case3", "leftRotate">>, <<"case3", "rightRotate">>,
                                     <<"case2", "leftRotate", "case3", "rightRotate">>,
                                     <<"case2", "rightRotate", "case3", "leftRotate">>}
              /\ ~UncleBlack(it) =>
                    /\ it.steps = <<"case1">>
                    /\ it.k1 = it.pre.h[it.pre.h[it.k0].parent].parent
                    /\ it.post.h = [it.pre.h EXCEPT ![it.k1].color = RED,
                                       ![it.pre.h[it.k1].left].color = BLACK,
                                       ![it.pre.h[it.k1].right].color = BLACK]
                    /\ Level(it.post.h, it.k1) = Level(it.pre.h, it.k0) - 2
              /\ i < Len(last.its) => ~UncleBlack(it)

\* C15's case: the loop ran twice, first recoloring under a RED uncle and
\* moving the current node from level 4 to level 2, then rotating twice under
\* a BLACK uncle and stopping there.
C15_Witness ==
    /\ Len(last.its) = 2 /\ Len(last.rots) = 2
    /\ last.its[1].steps = <<"case1">>
    /\ Level(last.its[1].pre.h, last.its[1].k0) = 4
    /\ Level(last.its[1].post.h, last.its[1].k1) = 2
    /\ Len(last.its[2].steps) = 4
    /\ heap[heap[last.its[2].k1].parent].color = BLACK

\* The heap and the root as insert's lines 88-97 left them, before fix-up
\* changed anything: the first iteration's snapshot, or the tree itself when
\* the loop did not run (line 181 writes a color only).
Attached ==
    IF last.its = <<>> THEN [h |-> heap, root |-> root] ELSE last.its[1].pre

\* C16: insert skips fix-up exactly when the new node became the root or a
\* child of the root.  A new root is BLACK, its children are the sentinel and
\* it has no parent.  A new child of the root stays RED under a BLACK root;
\* the insert wrote the new node's parent and the root's child link and
\* nothing else, rotated nothing, and the tree has no RED node with a RED
\* child and the same number of BLACK nodes on every path.
C16_FixupSkipped ==
    last.op = "insert" =>
        LET n == last.node
        IN  /\ Len(hist) = 1 <=> last.log = <<"newRoot">>
            /\ last.log = <<"newRoot">> =>
                  /\ root = n /\ heap[n].color = BLACK /\ heap[n].parent = Null
                  /\ heap[n].left = NIL /\ heap[n].right = NIL
                  /\ last.w = {<<n, "parent">>, <<Null, "root">>, <<n, "color">>}
                  /\ last.rots = <<>> /\ last.its = <<>>
            /\ last.log = <<"rootChild">> =>
                  /\ heap[n].parent = root /\ n \in {heap[root].left, heap[root].right}
                  /\ heap[n].color = RED /\ heap[root].color = BLACK
                  /\ heap[n].left = NIL /\ heap[n].right = NIL
                  /\ last.w = {<<n, "parent">>,
                               <<root, IF heap[root].left = n THEN "left" ELSE "right">>}
                  /\ last.rots = <<>> /\ last.its = <<>>
                  /\ Cardinality(PathBlacks(heap, root)) = 1
                  /\ \A x \in Nodes : heap[x].color = RED =>
                        heap[heap[x].left].color = BLACK /\ heap[heap[x].right].color = BLACK
            /\ Logged("fixInsert") <=>
                  /\ Attached.h[n].parent # Null
                  /\ Attached.h[n].parent # Attached.root
            /\ last.log[1] \in {"newRoot", "rootChild", "fixInsert"}

\* C16's case: the second child of the root was attached on the left, next to
\* a RED right child attached before it, and fix-up was skipped.
C16_Witness ==
    /\ last.op = "insert" /\ last.log = <<"rootChild">> /\ Len(hist) = 3
    /\ heap[root].left = 3 /\ heap[root].right = 2
    /\ heap[2].color = RED /\ heap[3].color = RED /\ heap[root].color = BLACK

\* The step is a call of a read-only operation.
ReadStep == out'.op # "none"

\* The four traversals of the tree return the same keys the same number of
\* times, which are the keys inserted.
SameMultiset ==
    \A key \in Range(hist) \cup Range(preorderTraversal(Tree)) \cup Range(inorderTraversal(Tree))
               \cup Range(postorderTraversal(Tree)) \cup Range(levelOrderTraversal(Tree)) :
        /\ Count(preorderTraversal(Tree), key) = Count(inorderTraversal(Tree), key)
        /\ Count(postorderTraversal(Tree), key) = Count(inorderTraversal(Tree), key)
        /\ Count(levelOrderTraversal(Tree), key) = Count(inorderTraversal(Tree), key)
        /\ Count(hist, key) = Count(inorderTraversal(Tree), key)

\* C17: a call of a traversal, search, getDepth, getMinimum, getMaximum or
\* isEmpty leaves the root reference and every field of every node and of the
\* sentinel as they were; the same call made again with no insert or clear in
\* between returns the same result; and the four traversals return the same
\* multiset of keys.
C17_ReadOnly ==
    /\ [][ReadStep =>
            /\ heap' = heap /\ root' = root
            /\ (out.op = out'.op /\ out.key = out'.key) => out'.result = out.result
            /\ out'.op \in {"preorderTraversal", "inorderTraversal",
                            "postorderTraversal", "levelOrderTraversal"} =>
                  \A key \in Range(hist) \cup Range(out'.result) :
                      Count(out'.result, key) = Count(hist, key)]_vars
    /\ []SameMultiset

\* C17's case: levelOrderTraversal was called on a tree of five nodes with a
\* duplicate key, right after another read-only call; it returned the five
\* keys in an order none of the other three traversals gives, and the tree
\* still holds the nodes the inserts made.
C17_Witness ==
    /\ out.op = "levelOrderTraversal" /\ Len(out.result) = 5 /\ Len(hist) = 5
    /\ Range(hist) = {1, 2}
    /\ out.result = levelOrderTraversal(Tree)
    /\ out.result # preorderTraversal(Tree)
    /\ out.result # inorderTraversal(Tree)
    /\ out.result # postorderTraversal(Tree)
    /\ DOMAIN heap = 0..5 /\ root # NIL

\* C18: the sentinel is BLACK and keeps the fields createNilNode gave it in
\* every state, also between the steps of fix-up; no insert, rotation or
\* clear writes a field of the sentinel.
C18_SentinelUntouched ==
    /\ heap[NIL] = createNilNode /\ heap[NIL].color = BLACK
    /\ \A nf \in last.w : nf[1] # NIL
    /\ \A i \in DOMAIN last.rots :
          /\ last.rots[i].post.h[NIL] = createNilNode
          /\ \A nf \in last.rots[i].w : nf[1] # NIL
    /\ \A i \in DOMAIN last.its :
          /\ last.its[i].pre.h[NIL] = createNilNode
          /\ last.its[i].post.h[NIL] = createNilNode

\* C18's case: fix-up found the sentinel as the uncle and did not recolor
\* it, and both rotations that followed had the sentinel as the child to
\* transfer and did not assign its parent.
C18_Witness ==
    /\ Len(last.its) = 1 /\ Len(last.rots) = 2
    /\ LET it == last.its[1]
           g == it.pre.h[it.pre.h[it.k0].parent].parent
       IN  NIL \in {it.pre.h[g].left, it.pre.h[g].right}
    /\ last.rots[1].op = "rightRotate" /\ last.rots[1].pre.h[last.rots[1].y].right = NIL
    /\ last.rots[2].op = "leftRotate" /\ last.rots[2].pre.h[last.rots[2].y].left = NIL
    /\ heap[NIL] = createNilNode

\* The node ids met in inorder from n, following child links at most d deep.
\* On links that form a tree of at most d nodes this is InorderNodes; on a
\* cycle or a shared subtree it lists a node more than once.
RECURSIVE InorderWithin(_, _, _)
InorderWithin(h, n, d) ==
    IF n = NIL \/ d = 0 THEN <<>>
    ELSE InorderWithin(h, h[n].left, d - 1) \o <<n>> \o InorderWithin(h, h[n].right, d - 1)

\* The links of heap h under root r form a tree whose parent references
\* mirror the child links and which holds every node of h exactly once.
WellFormed(h, r) ==
    LET reach == InorderWithin(h, r, Cardinality(DOMAIN h))
    IN  /\ r \in DOMAIN h
        /\ r # NIL => h[r].parent = Null
        /\ \A n \in RealNodes(h) :
              /\ h[n].left \in DOMAIN h /\ h[n].right \in DOMAIN h
              /\ h[n].left # NIL => h[h[n].left].parent = n
              /\ h[n].right # NIL => h[h[n].right].parent = n
              /\ n # r => /\ h[n].parent \in RealNodes(h)
                          /\ n \in {h[h[n].parent].left, h[h[n].parent].right}
        /\ Len(reach) = Cardinality(RealNodes(h))
        /\ Range(reach) = RealNodes(h)

\* C19: after every insert (and clear), and after every rotation inside
\* fix-up, the root has no parent, every child that is a node points back at
\* its parent, and every node created since the last clear is reached from
\* the root exactly once.
C19_ParentsMirrorChildren ==
    /\ WellFormed(heap, root)
    /\ RealNodes(heap) = 1..Len(hist)
    /\ \A i \in DOMAIN last.rots :
          /\ WellFormed(last.rots[i].pre.h, last.rots[i].pre.root)
          /\ WellFormed(last.rots[i].post.h, last.rots[i].post.root)

\* C19's case: the eighth insert rotated right below the root and then left
\* at the root, each rotation re-parenting a subtree; after the first
\* rotation alone, and at the end, the eight nodes form one tree.
C19_Witness ==
    /\ Len(hist) = 8 /\ Len(last.rots) = 2
    /\ last.rots[1].op = "rightRotate" /\ last.rots[2].op = "leftRotate"
    /\ last.rots[1].pre.h[last.rots[1].y].right # NIL
    /\ last.rots[2].pre.h[last.rots[2].y].left # NIL
    /\ last.rots[2].pre.h[last.rots[2].x].parent = Null
    /\ Len(InorderWithin(last.rots[1].post.h, last.rots[1].post.root, 8)) = 8
    /\ heap[root].parent = Null /\ root = last.rots[2].y

=============================================================================
